---- MODULE Spec2Model ----
(***************************************************************************)
(* Model of simulator/generation/plan.rs: the interaction plan, its text   *)
(* rendering and compute_via_diff, the shadow of a plan item, plan         *)
(* statistics, the plan generator, execute_query, execute_fault,           *)
(* execute_assertion and execute_assumption, and of the interpreter that   *)
(* steps through a plan (the loop itself follows the specification text).  *)
(*                                                                         *)
(* Strings are sequences of tokens (each token a TLA+ string), so that     *)
(* Display, starts_with and contains are computed and not assumed.         *)
(***************************************************************************)
EXTENDS Integers, Sequences, FiniteSets, TLC

VARIABLES
    pc,        \* position of the operation under study
    base,      \* compute_via_diff: the serialized (baseline) InteractionPlan
    text,      \* compute_via_diff: the lines of the human readable plan file
    origin,    \* per text line: <<j, k>> of the interaction it renders, <<j, 0>> for a marker of item j, <<0, 0>> for an inserted line
    edits,     \* what the user did to the rendering: [del, rm, ins] counters
    result,    \* compute_via_diff: the returned Vec<Vec<Interaction>>
    statsPlan, \* stats: the InteractionPlan whose statistics are taken
    statsOut,  \* stats: the InteractionStats returned by plan.stats()
    shadowItem,\* shadow: the plan item Interactions::shadow was called on
    tables0,   \* shadow: env.tables when the call started
    tables,    \* env.tables, the shadow catalog
    opts,      \* generator: env.opts (max_interactions, disable_reopen_database, targets)
    stream,    \* generator: the values the seeded rng has yielded so far, one record per call
    ambient,   \* generator: per run, state outside the seed (clock, hasher state); never read
    gen,       \* generator: per run, [pc, plan, tables, pos] of InteractionPlan::arbitrary_from
    out,       \* execute_query: the rows collected so far
    ret,       \* execute_query: the ResultSet returned
    engine,    \* execute_query: what the engine did ([steps, rows, io, failed]); history
    connections, \* env.connections: one slot per connection
    db,        \* env.db: the handle of the open database
    fault,     \* execute_fault: the call under way or last made, the state it started from, its result
    numConns,  \* execute_fault: the local num_conns of the ReopenDatabase arm
    run        \* interpreter: InteractionPlanState [stack, interaction_pointer, secondary_pointer], the plan, the failure message, and the steps executed so far (history)

diffVars   == <<base, text, origin, edits, result>>
statsVars  == <<statsPlan, statsOut>>
shadowVars == <<shadowItem, tables0, tables>>
genVars    == <<opts, stream, ambient, gen>>
queryVars  == <<out, ret, engine>>
faultVars  == <<connections, db, fault, numConns>>
runVars    == <<run>>
vars == <<pc, diffVars, statsVars, shadowVars, genVars, queryVars, faultVars, runVars>>

\* What each operation leaves alone: the state of the other operations.
NotDiff   == <<statsVars, shadowVars, genVars, queryVars, faultVars, runVars>>
NotStats  == <<diffVars, shadowVars, genVars, queryVars, faultVars, runVars>>
NotShadow == <<diffVars, statsVars, genVars, queryVars, faultVars, runVars>>
NotGen    == <<diffVars, statsVars, shadowVars, queryVars, faultVars, runVars>>
NotQuery  == <<diffVars, statsVars, shadowVars, genVars, faultVars, runVars>>
NotFault  == <<diffVars, statsVars, genVars, queryVars, shadowItem, tables0, runVars>>
NotRun    == <<diffVars, statsVars, genVars, queryVars, shadowItem, tables0, fault, numConns>>

(***************************************************************************)
(* Bounds                                                                  *)
(***************************************************************************)
MaxItems == 2      \* top-level items of a baseline plan given to the diff
MaxEdits == 2      \* user edits (deleted or inserted lines) of a rendering
MaxStatsItems == 2 \* top-level items of a plan whose statistics are taken
MaxRows == 1       \* rows of a table of the initial shadow catalog
MaxPlan == 3       \* largest opts.max_interactions the generator is run with
MaxSteps == 4      \* results a row stream reports before the model stops asking
MaxConns == 2      \* connection slots of the environment
MaxReopens == 2    \* database handles opened after the first
MaxRunItems == 2   \* top-level items of a plan the interpreter runs

(***************************************************************************)
(* The state an operation that is not under study rests in                 *)
(***************************************************************************)
NoEdits == [del |-> 0, rm |-> 0, ins |-> 0]

NoItem == [type |-> "None"]

ZeroStats ==
    [read_count |-> 0, write_count |-> 0, delete_count |-> 0, update_count |-> 0,
     create_count |-> 0, create_index_count |-> 0, drop_count |-> 0]

Runs == {1, 2}

NoOpts ==
    [max_interactions |-> 0, disable_reopen_database |-> FALSE,
     targets |-> [read |-> 0, write |-> 0, create |-> 0, create_index |-> 0,
                  delete |-> 0, update |-> 0]]

GenOff == [pc |-> "off", plan |-> <<>>, tables |-> <<>>, pos |-> 0]

GenIdle ==
    /\ opts = NoOpts /\ stream = <<>>
    /\ ambient = [r \in Runs |-> 0] /\ gen = [r \in Runs |-> GenOff]

StatsIdle == statsPlan = <<>> /\ statsOut = ZeroStats

ShadowIdle == shadowItem = NoItem /\ tables0 = <<>> /\ tables = <<>>

\* The shadow call's own record, at rest while faults run on env.tables.
ShadowCallIdle == shadowItem = NoItem /\ tables0 = <<>>

NoResult == [ok |-> TRUE, rows |-> <<>>, err |-> "none"]

NoEngine == [steps |-> 0, rows |-> <<>>, io |-> 0, failed |-> FALSE, trace |-> <<>>]

QueryIdle == out = <<>> /\ ret = NoResult /\ engine = NoEngine

NoFault == [kind |-> "None", index |-> 0, pre |-> <<>>, preDb |-> 0, preTables |-> <<>>,
            result |-> "none", opened |-> "none", n0 |-> 0, hist |-> <<>>]

FaultIdle == connections = <<>> /\ db = 0 /\ fault = NoFault /\ numConns = 0

NoRun ==
    [plan |-> <<>>, interaction_pointer |-> 0, secondary_pointer |-> 0, stack |-> <<>>,
     message |-> <<>>, trace |-> <<>>]

RunIdle == run = NoRun

\* The record of the last fault call, at rest while the interpreter runs.
FaultCallIdle == fault = NoFault /\ numConns = 0

DiffIdle ==
    /\ base = <<>> /\ text = <<>> /\ origin = <<>> /\ edits = NoEdits /\ result = <<>>

\* The initial state of a specification of one operation pins the others.
OnlyDiff   == StatsIdle /\ ShadowIdle /\ GenIdle /\ QueryIdle /\ FaultIdle /\ RunIdle
OnlyStats  == DiffIdle /\ ShadowIdle /\ GenIdle /\ QueryIdle /\ FaultIdle /\ RunIdle
OnlyShadow == DiffIdle /\ StatsIdle /\ GenIdle /\ QueryIdle /\ FaultIdle /\ RunIdle
OnlyGen    == DiffIdle /\ StatsIdle /\ ShadowIdle /\ QueryIdle /\ FaultIdle /\ RunIdle
OnlyQuery  == DiffIdle /\ StatsIdle /\ ShadowIdle /\ GenIdle /\ FaultIdle /\ RunIdle
OnlyFault  == DiffIdle /\ StatsIdle /\ GenIdle /\ QueryIdle /\ ShadowCallIdle /\ RunIdle
OnlyRun    == DiffIdle /\ StatsIdle /\ GenIdle /\ QueryIdle /\ ShadowCallIdle /\ FaultCallIdle

(***************************************************************************)
(* Generic sequence helpers                                                *)
(***************************************************************************)
Range(s) == {s[n] : n \in 1..Len(s)}

RECURSIVE Flatten(_)
Flatten(ss) == IF ss = <<>> THEN <<>> ELSE Head(ss) \o Flatten(Tail(ss))

SeqsUpTo(S, n) == UNION {[1..m -> S] : m \in 0..n}

\* A removal that does not keep the order of what stays: s.swap(0, k) and
\* then s.remove(0), which leaves the old first element at position k - 1.
SwapFrontRemoveAt(s, k) ==
    IF k = 0 THEN Tail(s)
    ELSE SubSeq(s, 2, k) \o <<s[1]>> \o SubSeq(s, k + 2, Len(s))

\* Vec::remove(k), k 0-based: removes and shifts the tail left.
RemoveAt(s, k) == SubSeq(s, 1, k) \o SubSeq(s, k + 2, Len(s))

\* split_off keeping one element more than asked.
SplitOffKeepOneMore(s, at) == SubSeq(s, 1, IF at < Len(s) THEN at + 1 ELSE at)

\* Vec::split_off(at) leaves the first `at` elements in the vector.
SplitOffKeep(s, at) == SubSeq(s, 1, at)

\* str::starts_with
StartsWith(line, prefix) ==
    /\ Len(prefix) <= Len(line)
    /\ SubSeq(line, 1, Len(prefix)) = prefix

\* str::contains: `s` occurs as a contiguous piece of `line`.
ContainsExact(line, s) == line = s

Contains(line, s) ==
    \E off \in 0..(Len(line) - Len(s)) : SubSeq(line, off + 1, off + Len(s)) = s

(***************************************************************************)
(* Data model: Query, Fault, Interaction, Property, Interactions           *)
(***************************************************************************)
QueryKinds == {"Create", "CreateIndex", "Insert", "Delete", "Update", "Drop", "Select"}

\* A query: its kind, its table, one value (the inserted row, or the value a
\* predicate compares with; 0 is the predicate TRUE) and a LIMIT (0: none).
Q(kind, table, val, limit) == [kind |-> kind, table |-> table, val |-> val, limit |-> limit]

ValTok(v) == IF v = 0 THEN "TRUE" ELSE IF v = 1 THEN "1" ELSE IF v = 2 THEN "2" ELSE "3"

\* Display for Query (the SQL text).
QueryStr(q) ==
    CASE q.kind = "Create"      -> <<"CREATE TABLE", q.table>>
      [] q.kind = "CreateIndex" -> <<"CREATE INDEX", q.table>>
      [] q.kind = "Insert"      -> <<"INSERT INTO", q.table, "VALUES", ValTok(q.val)>>
      [] q.kind = "Delete"      -> <<"DELETE FROM", q.table, "WHERE", ValTok(q.val)>>
      [] q.kind = "Update"      -> <<"UPDATE", q.table, "SET", ValTok(q.val)>>
      [] q.kind = "Drop"        -> <<"DROP TABLE", q.table>>
      [] q.kind = "Select"      ->
            <<"SELECT * FROM", q.table, "WHERE", ValTok(q.val)>>
                \o (IF q.limit > 0 THEN <<"LIMIT", ValTok(q.limit)>> ELSE <<>>)

\* Display for Fault.
FaultStr(f) == IF f = "Disconnect" THEN "DISCONNECT" ELSE "REOPEN_DATABASE"

IQuery(q)      == [type |-> "Query", query |-> q]
IAssumption(m) == [type |-> "Assumption", message |-> m]
IAssertion(m)  == [type |-> "Assertion", message |-> m]
IFault(f)      == [type |-> "Fault", fault |-> f]

\* Display for Interaction.
InteractionStr(x) ==
    CASE x.type = "Query"      -> QueryStr(x.query)
      [] x.type = "Assumption" -> <<"ASSUME", x.message>>
      [] x.type = "Assertion"  -> <<"ASSERT", x.message>>
      [] x.type = "Fault"      -> <<"FAULT", FaultStr(x.fault)>>

QueriesOf(qs) == [n \in 1..Len(qs) |-> IQuery(qs[n])]

\* Property::interactions(): the ordered expansion of a property.
PropInteractions(p) ==
    CASE p.name = "InsertValuesSelect" ->
            <<IQuery(p.insert)>> \o QueriesOf(p.queries)
                \o <<IQuery(p.select), IAssertion("row found")>>
      [] p.name = "DoubleCreateFailure" ->
            <<IQuery(p.create)>> \o QueriesOf(p.queries)
                \o <<IQuery(p.create), IAssumption("second create fails"),
                     IAssertion("one table")>>
      [] p.name = "SelectLimit" ->
            <<IQuery(p.select), IAssertion("at most limit rows")>>
      [] p.name = "DeleteSelect" ->
            <<IQuery(Q("Delete", p.table, p.predicate, 0))>> \o QueriesOf(p.queries)
                \o <<IQuery(Q("Select", p.table, p.predicate, 0)),
                     IAssertion("no rows")>>
      [] p.name = "DropSelect" ->
            <<IQuery(Q("Drop", p.table, 0, 0))>> \o QueriesOf(p.queries)
                \o <<IQuery(p.select), IAssertion("no such table")>>
      [] p.name = "SelectSelectOptimizer" ->
            <<IQuery(Q("Select", p.table, 0, 0)),
              IQuery(Q("Select", p.table, p.predicate, 0)),
              IAssertion("same values")>>

ItemProperty(p) == [type |-> "Property", property |-> p]
ItemQuery(q)    == [type |-> "Query", query |-> q]
ItemFault(f)    == [type |-> "Fault", fault |-> f]

\* Interactions::interactions()
Interactions(item) ==
    CASE item.type = "Property" -> PropInteractions(item.property)
      [] item.type = "Query"    -> <<IQuery(item.query)>>
      [] item.type = "Fault"    -> <<IFault(item.fault)>>

\* plan.into_iter().map(|i| i.interactions()).collect()
Expand(plan) == [n \in 1..Len(plan) |-> Interactions(plan[n])]

(***************************************************************************)
(* Display for InteractionPlan: the lines of the .plan file                *)
(***************************************************************************)
BeginLine(name) == <<"--", "begin", "testing", name>>
EndLine(name)   == <<"--", "end", "testing", name>>

PropertyLine(x) ==
    <<"\t">> \o
    (CASE x.type = "Query"      -> QueryStr(x.query) \o <<";">>
       [] x.type = "Assumption" -> <<"--", "ASSUME", x.message, ";">>
       [] x.type = "Assertion"  -> <<"--", "ASSERT", x.message, ";">>
       [] x.type = "Fault"      -> <<"--", "FAULT", FaultStr(x.fault), ";">>)

RenderItem(item) ==
    CASE item.type = "Property" ->
            LET xs == PropInteractions(item.property) IN
            <<BeginLine(item.property.name)>>
                \o [n \in 1..Len(xs) |-> PropertyLine(xs[n])]
                \o <<EndLine(item.property.name)>>
      [] item.type = "Fault" -> << <<"--", "FAULT", FaultStr(item.fault)>> >>
      [] item.type = "Query" -> << QueryStr(item.query) \o <<";">> >>

Render(plan) == Flatten([n \in 1..Len(plan) |-> RenderItem(plan[n])])

\* Which interaction each rendered line shows: <<j, k>>, 1-based; k = 0 for a marker.
OriginItem(item, j) ==
    CASE item.type = "Property" ->
            LET xs == PropInteractions(item.property) IN
            << <<j, 0>> >> \o [n \in 1..Len(xs) |-> <<j, n>>] \o << <<j, 0>> >>
      [] OTHER -> << <<j, 1>> >>

RenderOrigin(plan) == Flatten([n \in 1..Len(plan) |-> OriginItem(plan[n], n)])

(***************************************************************************)
(* InteractionPlan::compute_via_diff                                       *)
(***************************************************************************)
\* The lines the outer loop skips.
IsSkipLine(line) ==
    \/ StartsWith(line, <<"--", "begin">>)
    \/ StartsWith(line, <<"--", "end">>)
    \/ line = <<>>

\* The inner loop `while k < plan[j].len()`; i, j, k are 0-based as in the code.
\* Returns the plan and the text index the loop ends with.
RECURSIVE DiffInner(_, _, _, _, _)
DiffInner(lines, plan, i, j, k) ==
    IF k < Len(plan[j + 1])
    THEN IF i >= Len(lines)
         THEN [plan |-> [SplitOffKeep(plan, j + 1) EXCEPT ![j + 1] = SplitOffKeep(@, k)],
               i |-> i]
         ELSE IF Contains(lines[i + 1], InteractionStr(plan[j + 1][k + 1]))
              THEN DiffInner(lines, plan, i + 1, j, k + 1)
              ELSE DiffInner(lines, [plan EXCEPT ![j + 1] = RemoveAt(@, k)], i, j, k)
    ELSE [plan |-> plan, i |-> i]

\* The outer loop without the removal of an item left empty.
RECURSIVE DiffOuterKeepEmpty(_, _, _, _)
DiffOuterKeepEmpty(lines, plan, i, j) ==
    IF i < Len(lines) /\ j < Len(plan)
    THEN IF IsSkipLine(lines[i + 1])
         THEN DiffOuterKeepEmpty(lines, plan, i + 1, j)
         ELSE LET r == DiffInner(lines, plan, i, j, 0) IN
              DiffOuterKeepEmpty(lines, r.plan, r.i, j + 1)
    ELSE SplitOffKeep(plan, j)

\* The outer loop `while i < interactions.len() && j < plan.len()` and the
\* final split_off(j).
RECURSIVE DiffOuter(_, _, _, _)
DiffOuter(lines, plan, i, j) ==
    IF i < Len(lines) /\ j < Len(plan)
    THEN IF IsSkipLine(lines[i + 1])
         THEN DiffOuter(lines, plan, i + 1, j)
         ELSE LET r == DiffInner(lines, plan, i, j, 0) IN
              IF r.plan[j + 1] = <<>>
              THEN DiffOuter(lines, RemoveAt(r.plan, j), r.i, j)
              ELSE DiffOuter(lines, r.plan, r.i, j + 1)
    ELSE SplitOffKeep(plan, j)

ComputeViaDiff(lines, plan) == DiffOuter(lines, Expand(plan), 0, 0)

\* Where the walk stands when the text runs out. InnerCut follows the inner
\* loop: "inner" is the branch `if i >= interactions.len()`, with the plan as
\* pruned so far and the j, k it is taken at; otherwise the loop ran to its
\* end. n counts the loop iterations made so far; "oob" is an index or a
\* split_off position outside its vector.
Cut(at, plan, i, j, k, n) == [at |-> at, plan |-> plan, i |-> i, j |-> j, k |-> k, n |-> n]

RECURSIVE InnerCut(_, _, _, _, _, _)
InnerCut(lines, plan, i, j, k, n) ==
    IF j >= Len(plan) THEN Cut("oob", plan, i, j, k, n)
    ELSE IF k < Len(plan[j + 1])
    THEN IF i >= Len(lines)
         THEN IF j + 1 <= Len(plan) /\ k <= Len(plan[j + 1])
              THEN Cut("inner", plan, i, j, k, n + 1)
              ELSE Cut("oob", plan, i, j, k, n + 1)
         ELSE IF Contains(lines[i + 1], InteractionStr(plan[j + 1][k + 1]))
              THEN InnerCut(lines, plan, i + 1, j, k + 1, n + 1)
              ELSE InnerCut(lines, [plan EXCEPT ![j + 1] = RemoveAt(@, k)], i, j, k, n + 1)
    ELSE Cut("end", plan, i, j, k, n)

\* OuterCut follows the outer loop: "boundary" is its exit with the text used
\* up and item j not yet begun, "none" its exit with every item settled.
RECURSIVE OuterCut(_, _, _, _, _)
OuterCut(lines, plan, i, j, n) ==
    IF j > Len(plan) THEN Cut("oob", plan, i, j, 0, n)
    ELSE IF j = Len(plan) THEN Cut("none", plan, i, j, 0, n)
    ELSE IF i >= Len(lines) THEN Cut("boundary", plan, i, j, 0, n)
    ELSE IF IsSkipLine(lines[i + 1]) THEN OuterCut(lines, plan, i + 1, j, n + 1)
    ELSE LET r == InnerCut(lines, plan, i, j, 0, n + 1) IN
         IF r.at \in {"inner", "oob"} THEN r
         ELSE IF r.plan[j + 1] = <<>>
              THEN OuterCut(lines, RemoveAt(r.plan, j), r.i, j, r.n)
              ELSE OuterCut(lines, r.plan, r.i, j + 1, r.n)

TextCut == OuterCut(text, Expand(base), 0, 0, 0)

\* The iterations the two loops can make: an inner iteration consumes a line,
\* removes an interaction or breaks; an outer one consumes a line or settles
\* an item.
WalkBound == 2 * Len(text) + Len(Flatten(Expand(base))) + Len(base) + 1

(***************************************************************************)
(* Inputs of the diff: baseline plans and user edits of the rendering      *)
(***************************************************************************)
SelectT    == Q("Select", "t1", 1, 0)
SelectTLim == Q("Select", "t1", 1, 1)    \* its SQL text extends SelectT's

DiffItems ==
    { ItemQuery(SelectT),
      ItemQuery(SelectTLim),
      ItemFault("Disconnect"),
      ItemProperty([name |-> "InsertValuesSelect", insert |-> Q("Insert", "t1", 1, 0),
                    row_index |-> 0, queries |-> <<>>, select |-> SelectT]) }

DiffPlans == SeqsUpTo(DiffItems, MaxItems) \ {<<>>}

\* Lines a user may insert that the diff is documented to skip.
SkipLines == { <<>>, <<"--", "begin", "testing", "x">>, <<"--", "end", "testing", "x">> }

DeleteLine(s, n) == SubSeq(s, 1, n - 1) \o SubSeq(s, n + 1, Len(s))

InsertAt(s, pos, e) == SubSeq(s, 1, pos) \o <<e>> \o SubSeq(s, pos + 1, Len(s))

NumEdits == edits.del + edits.rm + edits.ins

DiffInit ==
    /\ pc = "edit"
    /\ OnlyDiff
    /\ base \in DiffPlans
    /\ text = Render(base)
    /\ origin = RenderOrigin(base)
    /\ edits = NoEdits
    /\ result = <<>>

\* The user deletes one interaction line of the text.
UserDeleteInteraction ==
    /\ pc = "edit" /\ NumEdits < MaxEdits
    /\ \E n \in 1..Len(text) :
          /\ origin[n][2] > 0
          /\ text' = DeleteLine(text, n)
          /\ origin' = DeleteLine(origin, n)
    /\ edits' = [edits EXCEPT !.del = @ + 1]
    /\ UNCHANGED <<pc, base, result>> /\ UNCHANGED NotDiff

\* The user removes one empty or marker line of the text.
UserRemoveSkipLine ==
    /\ pc = "edit" /\ NumEdits < MaxEdits
    /\ \E n \in 1..Len(text) :
          /\ origin[n][2] = 0
          /\ text' = DeleteLine(text, n)
          /\ origin' = DeleteLine(origin, n)
    /\ edits' = [edits EXCEPT !.rm = @ + 1]
    /\ UNCHANGED <<pc, base, result>> /\ UNCHANGED NotDiff

\* The user inserts one empty or marker line anywhere in the text.
UserInsertSkipLine ==
    /\ pc = "edit" /\ NumEdits < MaxEdits
    /\ \E pos \in 0..Len(text), l \in SkipLines :
          /\ text' = InsertAt(text, pos, l)
          /\ origin' = InsertAt(origin, pos, <<0, 0>>)
    /\ edits' = [edits EXCEPT !.ins = @ + 1]
    /\ UNCHANGED <<pc, base, result>> /\ UNCHANGED NotDiff

\* compute_via_diff runs on the text file and its serialized sibling.
RunComputeViaDiff ==
    /\ pc = "edit"
    /\ result' = ComputeViaDiff(text, base)
    /\ pc' = "done"
    /\ UNCHANGED <<base, text, origin, edits>> /\ UNCHANGED NotDiff

DiffNext ==
    \/ UserDeleteInteraction
    \/ UserRemoveSkipLine
    \/ UserInsertSkipLine
    \/ RunComputeViaDiff

SpecDiff == DiffInit /\ [][DiffNext]_vars

(***************************************************************************)
(* The shadow model: Query::shadow on env.tables                           *)
(***************************************************************************)
Table(name, rows) == [name |-> name, rows |-> rows]

HasTable(tbls, name) == \E n \in 1..Len(tbls) : tbls[n].name = name

\* Query::shadow: the effect of one query on the shadow catalog.
QueryShadow(q, tbls) ==
    CASE q.kind = "Create" ->
            IF HasTable(tbls, q.table) THEN tbls ELSE Append(tbls, Table(q.table, <<>>))
      [] q.kind = "Drop" ->
            SelectSeq(tbls, LAMBDA t : t.name # q.table)
      [] q.kind = "Insert" ->
            [n \in 1..Len(tbls) |->
                IF tbls[n].name = q.table
                THEN Table(tbls[n].name, Append(tbls[n].rows, q.val)) ELSE tbls[n]]
      [] q.kind = "Delete" ->
            [n \in 1..Len(tbls) |->
                IF tbls[n].name = q.table
                THEN Table(tbls[n].name,
                           SelectSeq(tbls[n].rows, LAMBDA r : ~(q.val = 0 \/ r = q.val)))
                ELSE tbls[n]]
      [] q.kind = "Update" ->
            [n \in 1..Len(tbls) |->
                IF tbls[n].name = q.table
                THEN Table(tbls[n].name, [m \in 1..Len(tbls[n].rows) |-> q.val])
                ELSE tbls[n]]
      [] OTHER -> tbls     \* Select, CreateIndex: no effect on the rows

RECURSIVE ShadowAll(_, _)
ShadowAll(qs, tbls) ==
    IF qs = <<>> THEN tbls ELSE ShadowAll(Tail(qs), QueryShadow(Head(qs), tbls))

\* The Query interactions of a list of interactions, in order.
QueriesIn(xs) ==
    LET qx == SelectSeq(xs, LAMBDA x : x.type = "Query")
    IN [n \in 1..Len(qx) |-> qx[n].query]

\* The first part of Interactions::shadow for a property: the match on the
\* property's own fields.
PropertyShadow(p, tbls) ==
    CASE p.name = "InsertValuesSelect" ->
            ShadowAll(<<p.insert>> \o p.queries \o <<p.select>>, tbls)
      [] p.name = "DoubleCreateFailure" ->
            ShadowAll(<<p.create>> \o p.queries, tbls)
      [] p.name = "SelectLimit" ->
            ShadowAll(<<p.select>>, tbls)
      [] p.name = "DeleteSelect" ->
            ShadowAll(<<Q("Delete", p.table, p.predicate, 0)>> \o p.queries
                          \o <<Q("Select", p.table, p.predicate, 0)>>, tbls)
      [] p.name = "DropSelect" ->
            ShadowAll(<<Q("Drop", p.table, 0, 0)>> \o p.queries \o <<p.select>>, tbls)
      [] p.name = "SelectSelectOptimizer" ->
            ShadowAll(<<Q("Select", p.table, 0, 0), Q("Select", p.table, p.predicate, 0)>>,
                      tbls)

\* Interactions::shadow without the early return of DoubleCreateFailure.
InteractionsShadowNoReturn(it, tbls) ==
    CASE it.type = "Property" ->
            ShadowAll(QueriesIn(PropInteractions(it.property)),
                      PropertyShadow(it.property, tbls))
      [] it.type = "Query" -> QueryShadow(it.query, tbls)
      [] it.type = "Fault" -> tbls

\* Interactions::shadow
InteractionsShadow(it, tbls) ==
    CASE it.type = "Property" ->
            IF it.property.name = "DoubleCreateFailure"
               /\ HasTable(tbls, it.property.create.table)
            THEN tbls       \* the early `return`
            ELSE ShadowAll(QueriesIn(PropInteractions(it.property)),
                           PropertyShadow(it.property, tbls))
      [] it.type = "Query" -> QueryShadow(it.query, tbls)
      [] it.type = "Fault" -> tbls

(***************************************************************************)
(* InteractionPlan::stats                                                  *)
(***************************************************************************)
\* The counter a query kind adds to (both match blocks of stats()).
KindCounter(kind) ==
    CASE kind = "Select"      -> "read_count"
      [] kind = "Insert"      -> "write_count"
      [] kind = "Delete"      -> "delete_count"
      [] kind = "Create"      -> "create_count"
      [] kind = "Drop"        -> "drop_count"
      [] kind = "Update"      -> "update_count"
      [] kind = "CreateIndex" -> "create_index_count"

RECURSIVE CountQueries(_, _)
CountQueries(st, qs) ==
    IF qs = <<>> THEN st
    ELSE CountQueries([st EXCEPT ![KindCounter(Head(qs).kind)] = @ + 1], Tail(qs))

\* One iteration of `for interactions in &self.plan`.
StatsOfItemTopOnly(st, it) ==
    IF it.type = "Query" THEN CountQueries(st, <<it.query>>) ELSE st

StatsOfItem(st, it) ==
    CASE it.type = "Property" -> CountQueries(st, QueriesIn(PropInteractions(it.property)))
      [] it.type = "Query"    -> CountQueries(st, <<it.query>>)
      [] it.type = "Fault"    -> st

RECURSIVE StatsFrom(_, _)
StatsFrom(st, p) ==
    IF p = <<>> THEN st ELSE StatsFrom(StatsOfItem(st, Head(p)), Tail(p))

Stats(p) == StatsFrom(ZeroStats, p)

(***************************************************************************)
(* Inputs: plan items over a small catalog                                 *)
(***************************************************************************)
TableNames == {"t1", "t2"}
Vals == {1, 2}

Fillers == {<<>>, <<Q("Insert", "t1", 2, 0)>>, <<Q("Delete", "t1", 0, 0)>>}

PropertiesOver(T, V, F) ==
    {[name |-> "InsertValuesSelect", insert |-> Q("Insert", t, v, 0), row_index |-> 0,
      queries |-> f, select |-> Q("Select", t, v, 0)] : t \in T, v \in V, f \in F}
    \cup {[name |-> "DoubleCreateFailure", create |-> Q("Create", t, 0, 0), queries |-> f]
            : t \in T, f \in F}
    \cup {[name |-> "SelectLimit", select |-> Q("Select", t, 0, 1)] : t \in T}
    \cup {[name |-> "DeleteSelect", table |-> t, predicate |-> v, queries |-> f]
            : t \in T, v \in V \cup {0}, f \in F}
    \cup {[name |-> "DropSelect", table |-> t, queries |-> f, select |-> Q("Select", t, 0, 0)]
            : t \in T, f \in F}
    \cup {[name |-> "SelectSelectOptimizer", table |-> t, predicate |-> v]
            : t \in T, v \in V}

Properties == PropertiesOver(TableNames, Vals, Fillers)

\* One item of each shape, for plans whose statistics are taken.
StatsItems ==
    {ItemQuery(Q(k, "t1", 1, 0)) : k \in QueryKinds}
    \cup {ItemFault("Disconnect"), ItemFault("ReopenDatabase")}
    \cup {ItemProperty(p) : p \in PropertiesOver({"t1"}, {1}, {<<Q("Update", "t1", 2, 0)>>})}

ShadowItems ==
    {ItemProperty(p) : p \in Properties}
    \cup {ItemQuery(Q(k, "t1", 1, 0)) : k \in QueryKinds}
    \cup {ItemFault("Disconnect")}

InitTables ==
    {<<>>} \cup {<<Table("t1", rows)>> : rows \in SeqsUpTo(Vals, MaxRows)}
           \cup {<<Table("t1", rows), Table("t2", <<>>)>> : rows \in SeqsUpTo(Vals, MaxRows)}

(***************************************************************************)
(* plan.stats() on arbitrary plans                                         *)
(***************************************************************************)
StatsInit ==
    /\ pc = "build"
    /\ StatsIdle
    /\ OnlyStats

\* plan.plan.push(item)
PlanPush ==
    /\ pc = "build" /\ Len(statsPlan) < MaxStatsItems
    /\ \E it \in StatsItems : statsPlan' = Append(statsPlan, it)
    /\ UNCHANGED <<pc, statsOut>> /\ UNCHANGED NotStats

\* plan.stats()
RunStats ==
    /\ pc = "build"
    /\ statsOut' = Stats(statsPlan)
    /\ pc' = "counted"
    /\ UNCHANGED statsPlan /\ UNCHANGED NotStats

StatsNext == PlanPush \/ RunStats

SpecStats == StatsInit /\ [][StatsNext]_vars

(***************************************************************************)
(* Interactions::shadow on one item                                        *)
(***************************************************************************)
ShadowInit ==
    /\ pc = "idle"
    /\ shadowItem = NoItem
    /\ tables \in InitTables
    /\ tables0 = tables
    /\ OnlyShadow

\* interactions.shadow(env)
RunShadow ==
    /\ pc = "idle"
    /\ \E it \in ShadowItems :
          /\ shadowItem' = it
          /\ tables' = InteractionsShadow(it, tables)
    /\ tables0' = tables
    /\ pc' = "shadowed"
    /\ UNCHANGED NotShadow

ShadowNext == RunShadow

SpecShadow == ShadowInit /\ [][ShadowNext]_vars

(***************************************************************************)
(* The plan generator: Interactions::arbitrary_from and                    *)
(* InteractionPlan::arbitrary_from                                         *)
(***************************************************************************)
Min(a, b) == IF a < b THEN a ELSE b
Max(a, b) == IF a > b THEN a ELSE b

\* The per-kind targets a configuration may set: one with a budget for every
\* kind, one whose budgets are spent after two items.
TargetSets ==
    { [read |-> 1, write |-> 1, create |-> 2, create_index |-> 1, delete |-> 1, update |-> 1],
      [read |-> 1, write |-> 1, create |-> 1, create_index |-> 0, delete |-> 0, update |-> 0] }

\* The per-kind targets the options configure.
Targets == opts.targets

\* The weight vector with the Fault weight left at the smallest budget.
WeightsFaultUnfloored(rem) ==
    << <<Min(rem.read, rem.write) + rem.create, "Property">>,
       <<rem.read, "Read">>,
       <<rem.write, "Write">>,
       <<rem.create, "Create">>,
       <<rem.create_index, "CreateIndex">>,
       <<rem.delete, "Delete">>,
       <<rem.update, "Update">>,
       <<0, "Drop">>,
       <<Min(Min(rem.read, rem.write), rem.create), "Fault">> >>

\* remaining(env, stats): the slack between target and count, clamped at zero.
Remaining(st) ==
    [read         |-> Max(Targets.read - st.read_count, 0),
     write        |-> Max(Targets.write - st.write_count, 0),
     create       |-> Max(Targets.create - st.create_count, 0),
     create_index |-> Max(Targets.create_index - st.create_index_count, 0),
     delete       |-> Max(Targets.delete - st.delete_count, 0),
     update       |-> Max(Targets.update - st.update_count, 0)]

\* The weight vector with the Drop producer given the weight of Delete.
WeightsDropEnabled(rem) ==
    << <<Min(rem.read, rem.write) + rem.create, "Property">>,
       <<rem.read, "Read">>,
       <<rem.write, "Write">>,
       <<rem.create, "Create">>,
       <<rem.create_index, "CreateIndex">>,
       <<rem.delete, "Delete">>,
       <<rem.update, "Update">>,
       <<rem.delete, "Drop">>,
       <<Max(Min(Min(rem.read, rem.write), rem.create), 1), "Fault">> >>

\* The (weight, producer) vector handed to frequency.
Weights(rem) ==
    << <<Min(rem.read, rem.write) + rem.create, "Property">>,
       <<rem.read, "Read">>,
       <<rem.write, "Write">>,
       <<rem.create, "Create">>,
       <<rem.create_index, "CreateIndex">>,
       <<rem.delete, "Delete">>,
       <<rem.update, "Update">>,
       <<0, "Drop">>,
       <<Max(Min(Min(rem.read, rem.write), rem.create), 1), "Fault">> >>

RECURSIVE Total(_)
Total(w) == IF w = <<>> THEN 0 ELSE Head(w)[1] + Total(Tail(w))

\* frequency: a draw in [0, total) goes to the first producer whose cumulative
\* weight exceeds it.
RECURSIVE Frequency(_, _)
Frequency(w, choice) ==
    IF choice < Head(w)[1] THEN Head(w)[2]
    ELSE Frequency(Tail(w), choice - Head(w)[1])

\* Create::arbitrary: a table with a random name.
NameOf(a) == IF a % 2 = 0 THEN "t1" ELSE "t2"

\* The table a generator picks from env.tables.
PickTable(tbls, a) == tbls[1 + (a % Len(tbls))].name

RandomCreate(a) == ItemQuery(Q("Create", NameOf(a), 0, 0))

RandomRead(a, tbls) ==
    IF tbls = <<>> THEN NoItem ELSE ItemQuery(Q("Select", PickTable(tbls, a), 0, 0))

RandomWrite(a, tbls) ==
    IF tbls = <<>> THEN NoItem ELSE ItemQuery(Q("Insert", PickTable(tbls, a), 1, 0))

RandomDelete(a, tbls) ==
    IF tbls = <<>> THEN NoItem ELSE ItemQuery(Q("Delete", PickTable(tbls, a), 1, 0))

RandomUpdate(a, tbls) ==
    IF tbls = <<>> THEN NoItem ELSE ItemQuery(Q("Update", PickTable(tbls, a), 2, 0))

RandomDrop(a, tbls) ==
    IF tbls = <<>> THEN NoItem ELSE ItemQuery(Q("Drop", PickTable(tbls, a), 0, 0))

\* random_create_index, with the closure's fallback to random_create.
RandomCreateIndex(a, tbls) ==
    IF tbls = <<>> THEN RandomCreate(a)
    ELSE ItemQuery(Q("CreateIndex", PickTable(tbls, a), 0, 0))

\* The fault list built without reading the option.
FaultsOfBoth(o) == <<"Disconnect", "ReopenDatabase">>

FaultsOf(o) ==
    IF o.disable_reopen_database THEN <<"Disconnect">>
    ELSE <<"Disconnect", "ReopenDatabase">>

\* random_fault, reading state outside the rng instead of the rng.
RandomFaultAmbient(a, o, amb) == ItemFault(FaultsOf(o)[1 + (amb % Len(FaultsOf(o)))])

\* random_fault: faults[rng.gen_range(0..faults.len())]; `amb` is the state
\* outside the rng, which the code does not read.
RandomFault(a, o, amb) == ItemFault(FaultsOf(o)[1 + (a % Len(FaultsOf(o)))])

PropNames ==
    <<"InsertValuesSelect", "DoubleCreateFailure", "SelectLimit", "DeleteSelect",
      "DropSelect", "SelectSelectOptimizer">>

\* Property::arbitrary_from: a property over the tables of the catalog.
RandomProperty(a, tbls) ==
    LET name == PropNames[1 + (a % Len(PropNames))] IN
    IF name = "DoubleCreateFailure"
    THEN ItemProperty([name |-> name, create |-> Q("Create", NameOf(a), 0, 0), queries |-> <<>>])
    ELSE IF tbls = <<>> THEN NoItem
    ELSE LET t == PickTable(tbls, a) IN
         ItemProperty(
            CASE name = "InsertValuesSelect" ->
                    [name |-> name, insert |-> Q("Insert", t, 1, 0), row_index |-> 0,
                     queries |-> <<>>, select |-> Q("Select", t, 1, 0)]
              [] name = "SelectLimit" -> [name |-> name, select |-> Q("Select", t, 0, 1)]
              [] name = "DeleteSelect" ->
                    [name |-> name, table |-> t, predicate |-> 1, queries |-> <<>>]
              [] name = "DropSelect" ->
                    [name |-> name, table |-> t, queries |-> <<>>,
                     select |-> Q("Select", t, 0, 0)]
              [] name = "SelectSelectOptimizer" ->
                    [name |-> name, table |-> t, predicate |-> 1])

\* The closure frequency dispatches to.
Produce(prod, a, tbls, o, amb) ==
    CASE prod = "Property"    -> RandomProperty(a, tbls)
      [] prod = "Read"        -> RandomRead(a, tbls)
      [] prod = "Write"       -> RandomWrite(a, tbls)
      [] prod = "Create"      -> RandomCreate(a)
      [] prod = "CreateIndex" -> RandomCreateIndex(a, tbls)
      [] prod = "Delete"      -> RandomDelete(a, tbls)
      [] prod = "Update"      -> RandomUpdate(a, tbls)
      [] prod = "Drop"        -> RandomDrop(a, tbls)
      [] prod = "Fault"       -> RandomFault(a, o, amb)

\* Interactions::arbitrary_from: the item for one rng draw.
InteractionsArbitraryFrom(d, tbls, st, o, amb) ==
    LET w == Weights(Remaining(st)) IN
    Produce(Frequency(w, d.pick % Total(w)), d.arg, tbls, o, amb)

\* How many values the producer's own draw ranges over.
ArgRange(prod, tbls, o) ==
    CASE prod = "Property" -> Len(PropNames)
      [] prod = "Create"   -> 2
      [] prod = "Fault"    -> Len(FaultsOf(o))
      [] OTHER             -> IF tbls = <<>> THEN 2 ELSE Len(tbls)

\* The rng values one call may yield, given the weights in force.
FreshDraws(tbls, st, o) ==
    LET w == Weights(Remaining(st)) IN
    UNION {{[pick |-> p, arg |-> a] : a \in 0..(ArgRange(Frequency(w, p), tbls, o) - 1)}
              : p \in 0..(Total(w) - 1)}

\* The value the rng of a run yields at its position: the seed fixes the
\* sequence, so a run reads what an earlier run from the same seed was given.
DrawsAt(g, fresh) == IF g.pos < Len(stream) THEN {stream[g.pos + 1]} ELSE fresh

Drawn(g, d) == IF g.pos < Len(stream) THEN stream ELSE Append(stream, d)

\* A second run starts from the same seed once the first has ended.
MayRun(r) == r = 1 \/ gen[1].pc \in {"done", "panic"}

GenInit ==
    /\ pc = "generate"
    /\ opts \in [max_interactions : 0..MaxPlan, disable_reopen_database : BOOLEAN,
               targets : TargetSets]
    /\ stream = <<>>
    /\ ambient \in {am \in [Runs -> 0..1] : am[1] = 0}
    /\ gen = [r \in Runs |-> [pc |-> "start", plan |-> <<>>, tables |-> <<>>, pos |-> 0]]
    /\ OnlyGen

\* The generator with the first table left out of env.tables.
FirstCreateNoTable(g, a) ==
    [g EXCEPT !.plan = Append(@, RandomCreate(a)), !.pc = "loop", !.pos = @ + 1]

\* InteractionPlan::arbitrary_from up to its loop: the first Create.
FirstCreate(g, a) ==
    [g EXCEPT !.tables = Append(@, Table(NameOf(a), <<>>)),
              !.plan = Append(@, RandomCreate(a)),
              !.pc = "loop", !.pos = @ + 1]

GenStart(r) ==
    /\ MayRun(r) /\ gen[r].pc = "start"
    /\ \E d \in DrawsAt(gen[r], {[pick |-> 0, arg |-> a] : a \in 0..1}) :
          /\ gen' = [gen EXCEPT ![r] = FirstCreate(@, d.arg)]
          /\ stream' = Drawn(gen[r], d)
    /\ UNCHANGED <<pc, opts, ambient>> /\ UNCHANGED NotGen

\* One iteration of `while plan.plan.len() < num_interactions`.
LoopBody(g, d, o, amb) ==
    LET it == InteractionsArbitraryFrom(d, g.tables, Stats(g.plan), o, amb) IN
    IF it = NoItem
    THEN [g EXCEPT !.pc = "panic", !.pos = @ + 1]
    ELSE [g EXCEPT !.tables = InteractionsShadow(it, @),
                   !.plan = Append(@, it),
                   !.pos = @ + 1]

GenStep(r) ==
    /\ MayRun(r) /\ gen[r].pc = "loop"
    /\ Len(gen[r].plan) < opts.max_interactions
    /\ \E d \in DrawsAt(gen[r], FreshDraws(gen[r].tables, Stats(gen[r].plan), opts)) :
          /\ gen' = [gen EXCEPT ![r] = LoopBody(@, d, opts, ambient[r])]
          /\ stream' = Drawn(gen[r], d)
    /\ UNCHANGED <<pc, opts, ambient>> /\ UNCHANGED NotGen

\* The loop ends and the plan is returned.
GenReturn(r) ==
    /\ MayRun(r) /\ gen[r].pc = "loop"
    /\ Len(gen[r].plan) >= opts.max_interactions
    /\ gen' = [gen EXCEPT ![r].pc = "done"]
    /\ UNCHANGED <<pc, opts, stream, ambient>> /\ UNCHANGED NotGen

GenNext == \E r \in Runs : GenStart(r) \/ GenStep(r) \/ GenReturn(r)

SpecGen == GenInit /\ [][GenNext]_vars

(***************************************************************************)
(* Interaction::execute_query                                              *)
(***************************************************************************)
Rows == {<<1>>, <<2>>}

QueryInit ==
    /\ pc = "submit"
    /\ QueryIdle
    /\ OnlyQuery

\* conn.query(&query_str) fails: the error is returned.
QueryRejected ==
    /\ pc = "submit"
    /\ ret' = [ok |-> FALSE, rows |-> <<>>, err |-> "query error"]
    /\ engine' = [engine EXCEPT !.failed = TRUE]
    /\ pc' = "returned"
    /\ UNCHANGED out /\ UNCHANGED NotQuery

\* conn.query(&query_str) is Ok(Some(rows)): the stepping loop starts.
QueryAccepted ==
    /\ pc = "submit"
    /\ pc' = "stepping"
    /\ UNCHANGED queryVars /\ UNCHANGED NotQuery

\* conn.query(&query_str) is Ok(None): assert!(rows.is_some()) fails.
QueryNoStream ==
    /\ pc = "submit"
    /\ pc' = "panic"
    /\ UNCHANGED queryVars /\ UNCHANGED NotQuery

\* The stream may report a further result that keeps the loop going; the
\* results that end the loop, Done and Err, may come at any step.
CanStep == pc = "stepping" /\ engine.steps < MaxSteps

\* What is returned after the loop: Ok(out).
LoopResult(rows) == [ok |-> TRUE, rows |-> rows, err |-> "none"]

\* `out` created anew inside the loop: only the last row is kept.
PushRowFresh(rows, row) == <<row>>

\* The Row arm: the values of the row are collected in r and r is pushed on out.
PushRow(rows, row) == Append(rows, [n \in 1..Len(row) |-> row[n]])

\* rows.step() is Ok(StepResult::Row): the row is converted and pushed.
StepRow ==
    /\ CanStep
    /\ \E row \in Rows :
          /\ out' = PushRow(out, row)
          /\ engine' = [engine EXCEPT !.steps = @ + 1, !.rows = Append(@, row),
                                     !.trace = Append(@, "Row")]
    /\ UNCHANGED <<pc, ret>> /\ UNCHANGED NotQuery

\* The IO arm that leaves the loop once io.run_once() has run.
StepIOBreaks ==
    /\ CanStep
    /\ engine' = [engine EXCEPT !.steps = @ + 1, !.io = @ + 1, !.trace = Append(@, "IO")]
    /\ ret' = LoopResult(out)
    /\ pc' = "returned"
    /\ UNCHANGED out /\ UNCHANGED NotQuery

\* rows.step() is Ok(StepResult::IO): io.run_once().unwrap(), then step again.
StepIO ==
    /\ CanStep
    /\ engine' = [engine EXCEPT !.steps = @ + 1, !.io = @ + 1, !.trace = Append(@, "IO")]
    /\ UNCHANGED <<pc, out, ret>> /\ UNCHANGED NotQuery

\* rows.step() is Ok(StepResult::IO) and io.run_once() fails: unwrap panics.
StepIOFails ==
    /\ CanStep
    /\ engine' = [engine EXCEPT !.steps = @ + 1, !.io = @ + 1, !.trace = Append(@, "IO")]
    /\ pc' = "panic"
    /\ UNCHANGED <<out, ret>> /\ UNCHANGED NotQuery

\* rows.step() is Ok(StepResult::Interrupt): nothing is done, step again.
StepInterrupt ==
    /\ CanStep
    /\ engine' = [engine EXCEPT !.steps = @ + 1, !.trace = Append(@, "Interrupt")]
    /\ UNCHANGED <<pc, out, ret>> /\ UNCHANGED NotQuery

\* rows.step() is Ok(StepResult::Busy): nothing is done, step again.
StepBusy ==
    /\ CanStep
    /\ engine' = [engine EXCEPT !.steps = @ + 1, !.trace = Append(@, "Busy")]
    /\ UNCHANGED <<pc, out, ret>> /\ UNCHANGED NotQuery

\* rows.step() is Ok(StepResult::Done): break, return Ok(out).
StepDone ==
    /\ pc = "stepping"
    /\ engine' = [engine EXCEPT !.steps = @ + 1, !.trace = Append(@, "Done")]
    /\ ret' = LoopResult(out)
    /\ pc' = "returned"
    /\ UNCHANGED out /\ UNCHANGED NotQuery

\* rows.step() is Err: `while let Ok(row)` ends the loop, return Ok(out).
StepErr ==
    /\ pc = "stepping"
    /\ engine' = [engine EXCEPT !.steps = @ + 1, !.failed = TRUE,
                                 !.trace = Append(@, "Err")]
    /\ ret' = LoopResult(out)
    /\ pc' = "returned"
    /\ UNCHANGED out /\ UNCHANGED NotQuery

QueryNext ==
    \/ QueryRejected
    \/ QueryAccepted
    \/ QueryNoStream
    \/ StepRow
    \/ StepIO
    \/ StepIOFails
    \/ StepInterrupt
    \/ StepBusy
    \/ StepDone
    \/ StepErr

SpecQuery == QueryInit /\ [][QueryNext]_vars

\* The stream of an accepted query eventually reports Done or a step error,
\* and the caller is not suspended between two steps.
SpecQueryFair == SpecQuery /\ WF_vars(QueryNext) /\ WF_vars(StepDone \/ StepErr)

(***************************************************************************)
(* Interaction::execute_fault                                              *)
(***************************************************************************)
\* SimConnection: a connection to the database with handle h, or Disconnected.
Live(h) == [state |-> "Connected", db |-> h]
Disconnected == [state |-> "Disconnected", db |-> -1]

\* SimConnection::is_connected
IsConnected(c) == c.state = "Connected"

FaultInit ==
    /\ pc = "ready"
    /\ \E n \in 1..MaxConns :
          /\ connections = [i \in 1..n |-> Live(0)]
          /\ fault = [NoFault EXCEPT !.n0 = n, !.hist = [i \in 1..n |-> "none"]]
    /\ db = 0
    /\ tables \in InitTables
    /\ numConns = 0
    /\ OnlyFault

Call(kind, index) ==
    [kind |-> kind, index |-> index, pre |-> connections, preDb |-> db,
     preTables |-> tables, result |-> "running", opened |-> "none", n0 |-> fault.n0,
     hist |-> fault.hist]

\* The Disconnect arm with the slot left as it is.
DisconnectSlotKept(conns, index) == conns

\* The Disconnect arm on a live slot: the slot becomes Disconnected.
DisconnectSlot(conns, index) == [conns EXCEPT ![index + 1] = Disconnected]

\* The Disconnect arm reconnecting a slot it finds Disconnected.
DisconnectArmRevive(conns, index) ==
    IF IsConnected(conns[index + 1])
    THEN [conns |-> DisconnectSlot(conns, index), result |-> "Ok"]
    ELSE [conns |-> [conns EXCEPT ![index + 1] = Live(0)], result |-> "Ok"]

\* The Disconnect arm without the is_connected test.
DisconnectArmUnchecked(conns, index) ==
    [conns |-> DisconnectSlot(conns, index), result |-> "Ok"]

\* The Disconnect arm: the connections it leaves and what it returns.
DisconnectArm(conns, index) ==
    IF IsConnected(conns[index + 1])
    THEN [conns |-> DisconnectSlot(conns, index), result |-> "Ok"]
    ELSE [conns |-> conns, result |-> "connection already disconnected"]

\* execute_fault(env, conn_index) on Fault::Disconnect.
FaultDisconnect ==
    /\ pc = "ready"
    /\ \E index \in 0..(Len(connections) - 1) :
          LET o == DisconnectArm(connections, index) IN
          /\ connections' = o.conns
          /\ fault' = [Call("Disconnect", index) EXCEPT
                          !.result = o.result,
                          !.hist = IF o.result = "Ok"
                                   THEN [@ EXCEPT ![index + 1] = "disconnected"] ELSE @]
    /\ UNCHANGED <<pc, db, numConns, tables>> /\ UNCHANGED NotFault

\* num_conns counted over the live slots only.
NumConnsLive(conns) == Cardinality({i \in 1..Len(conns) : IsConnected(conns[i])})

\* let num_conns = env.connections.len()
NumConns(conns) == Len(conns)

\* The connections left in place instead of cleared.
ClearConnectionsKept(conns) == conns

\* env.connections.clear()
ClearConnections(conns) == <<>>

\* The connections pushed before env.db is replaced: they are to the old handle.
ReconnectOld(conns, n, h) == conns \o [i \in 1..n |-> Live(h - 1)]

\* for _ in 0..num_conns { env.connections.push(LimboConnection(env.db.connect())) }
Reconnect(conns, n, h) == conns \o [i \in 1..n |-> Live(h)]

\* Database::open_file fails and the error is returned to the caller.
OpenFileErrReturned(f) ==
    [pc |-> "ready",
     fault |-> [f EXCEPT !.opened = "failed", !.result = "error opening simulator test file"]]

\* Database::open_file fails: the Err arm panics, nothing is returned.
OpenFileErr(f) == [pc |-> "panic", fault |-> [f EXCEPT !.opened = "failed"]]

\* ReopenDatabase, step 1: num_conns is read and the connections are cleared.
ReopenClear ==
    /\ pc = "ready" /\ db < MaxReopens
    /\ \E index \in 0..(Len(connections) - 1) : fault' = Call("ReopenDatabase", index)
    /\ numConns' = NumConns(connections)
    /\ connections' = ClearConnections(connections)
    /\ pc' = "reopen"
    /\ UNCHANGED <<db, tables>> /\ UNCHANGED NotFault

\* ReopenDatabase, step 2: Database::open_file succeeds, env.db is replaced.
ReopenOpen ==
    /\ pc = "reopen"
    /\ db' = db + 1
    /\ fault' = [fault EXCEPT !.opened = "ok"]
    /\ pc' = "reconnect"
    /\ UNCHANGED <<connections, numConns, tables>> /\ UNCHANGED NotFault

\* ReopenDatabase, step 2 when Database::open_file fails: panic!.
ReopenOpenFails ==
    /\ pc = "reopen"
    /\ pc' = OpenFileErr(fault).pc
    /\ fault' = OpenFileErr(fault).fault
    /\ UNCHANGED <<connections, db, numConns, tables>> /\ UNCHANGED NotFault

\* ReopenDatabase, step 3: num_conns connections to env.db are pushed; Ok(()).
ReopenConnect ==
    /\ pc = "reconnect"
    /\ connections' = Reconnect(connections, numConns, db)
    /\ fault' = [fault EXCEPT !.result = "Ok",
                              !.hist = [i \in 1..Len(@) |-> "reopened"]]
    /\ pc' = "ready"
    /\ UNCHANGED <<db, numConns, tables>> /\ UNCHANGED NotFault

\* ReopenDatabase, step 3 when env.db.connect() fails: unwrap panics.
ReopenConnectFails ==
    /\ pc = "reconnect"
    /\ pc' = "panic"
    /\ UNCHANGED <<connections, db, fault, numConns, tables>> /\ UNCHANGED NotFault

FaultNext ==
    \/ FaultDisconnect
    \/ ReopenClear
    \/ ReopenOpen
    \/ ReopenOpenFails
    \/ ReopenConnect
    \/ ReopenConnectFails

SpecFault == FaultInit /\ [][FaultNext]_vars

(***************************************************************************)
(* Interaction::execute_assertion, Interaction::execute_assumption and the *)
(* interpreter that steps through a plan                                   *)
(***************************************************************************)
\* What an assertion's or assumption's predicate evaluates to on (stack, env):
\* Ok(true), Ok(false), or Err(e) with e displayed as "inner error".
PredResults == {"true", "false", "inner error"}

Ok == [ok |-> TRUE, err |-> <<>>]

\* execute_assertion with the inner error's text dropped from the message.
ExecuteAssertionNoInner(message, pred) ==
    IF pred = "true" THEN Ok ELSE [ok |-> FALSE, err |-> <<message>>]

\* execute_assertion that lets Ok(false) pass.
ExecuteAssertionLenient(message, pred) ==
    IF pred = "inner error"
    THEN [ok |-> FALSE, err |-> <<message, ". Inner error: ", pred>>]
    ELSE Ok

\* Interaction::execute_assertion: Result<()> from the predicate's result.
ExecuteAssertion(message, pred) ==
    CASE pred = "true"  -> Ok
      [] pred = "false" -> [ok |-> FALSE, err |-> <<message>>]
      [] OTHER          -> [ok |-> FALSE, err |-> <<message, ". Inner error: ", pred>>]

\* execute_assumption that lets Ok(false) pass.
ExecuteAssumptionLenient(message, pred) ==
    IF pred = "inner error"
    THEN [ok |-> FALSE, err |-> <<message, ". Inner error: ", pred>>]
    ELSE Ok

\* Interaction::execute_assumption: Result<()> from the predicate's result.
ExecuteAssumption(message, pred) ==
    CASE pred = "true"  -> Ok
      [] pred = "false" -> [ok |-> FALSE, err |-> <<message>>]
      [] OTHER          -> [ok |-> FALSE, err |-> <<message, ". Inner error: ", pred>>]

\* The ResultSets execute_query can return.
QueryResults ==
    {LoopResult(<<>>), LoopResult(<< <<1>> >>),
     [ok |-> FALSE, rows |-> <<>>, err |-> "query error"]}

RunItems ==
    {ItemQuery(SelectT), ItemFault("Disconnect"), ItemFault("ReopenDatabase"),
     ItemProperty([name |-> "SelectLimit", select |-> SelectTLim]),
     ItemProperty([name |-> "DoubleCreateFailure",
                   create |-> Q("Create", "t2", 0, 0), queries |-> <<>>])}

RunInit ==
    /\ pc = "run"
    /\ \E p \in SeqsUpTo(RunItems, MaxRunItems) : run = [NoRun EXCEPT !.plan = p]
    /\ connections = [i \in 1..MaxConns |-> Live(0)]
    /\ db = 0
    /\ tables = <<>>
    /\ OnlyRun

\* item.interactions() of the current item, and the interaction the cursor is on.
CurInteractions(st) == Interactions(st.plan[st.interaction_pointer + 1])
Cur(st) == CurInteractions(st)[st.secondary_pointer + 1]

AtInteraction(type) ==
    /\ pc = "run"
    /\ run.interaction_pointer < Len(run.plan)
    /\ run.secondary_pointer < Len(CurInteractions(run))
    /\ Cur(run).type = type

\* One executed interaction, as the history keeps it.
Step(st, outcome) ==
    [item |-> st.interaction_pointer, at |-> st.secondary_pointer,
     type |-> Cur(st).type, outcome |-> outcome]

\* The item is left with what the stack holds kept for the next item.
NextItemKeepsStack(st) ==
    [st EXCEPT !.interaction_pointer = @ + 1, !.secondary_pointer = 0]

\* Clear stack, advance interaction_pointer, reset secondary_pointer.
NextItem(st) ==
    [st EXCEPT !.stack = <<>>, !.interaction_pointer = @ + 1, !.secondary_pointer = 0]

\* Advance secondary_pointer.
NextInteraction(st) == [st EXCEPT !.secondary_pointer = @ + 1]

\* Step 1: interaction_pointer == plan.len(): done, the run succeeds.
RunFinish ==
    /\ pc = "run" /\ run.interaction_pointer = Len(run.plan)
    /\ pc' = "success"
    /\ UNCHANGED <<run, connections, db, tables>> /\ UNCHANGED NotRun

\* Step 3: secondary_pointer >= interactions.len(): on to the next item.
RunNextItem ==
    /\ pc = "run" /\ run.interaction_pointer < Len(run.plan)
    /\ run.secondary_pointer >= Len(CurInteractions(run))
    /\ run' = NextItem(run)
    /\ UNCHANGED <<pc, connections, db, tables>> /\ UNCHANGED NotRun

\* Query: execute_query(conn, io), the ResultSet is pushed on the stack.
RunQuery ==
    /\ AtInteraction("Query")
    /\ \E res \in QueryResults :
          run' = NextInteraction([run EXCEPT !.stack = Append(@, res),
                                             !.trace = Append(@, Step(run, res))])
    /\ UNCHANGED <<pc, connections, db, tables>> /\ UNCHANGED NotRun

\* Query: execute_query panics (no row stream, or io.run_once() fails).
RunQueryPanics ==
    /\ AtInteraction("Query")
    /\ pc' = "panic"
    /\ UNCHANGED <<run, connections, db, tables>> /\ UNCHANGED NotRun

\* Assumption: execute_assumption(stack, env); Ok continues, Err aborts the item.
RunAssumption ==
    /\ AtInteraction("Assumption")
    /\ \E pred \in PredResults :
          LET r  == ExecuteAssumption(Cur(run).message, pred)
              st == [run EXCEPT !.trace = Append(@, Step(run, [pred |-> pred, ret |-> r]))]
          IN run' = IF r.ok THEN NextInteraction(st) ELSE NextItem(st)
    /\ UNCHANGED <<pc, connections, db, tables>> /\ UNCHANGED NotRun

\* Assertion: execute_assertion(stack, env); Err fails the run with its message.
RunAssertion ==
    /\ AtInteraction("Assertion")
    /\ \E pred \in PredResults :
          LET r  == ExecuteAssertion(Cur(run).message, pred)
              st == [run EXCEPT !.trace = Append(@, Step(run, [pred |-> pred, ret |-> r]))]
          IN IF r.ok
             THEN run' = NextInteraction(st) /\ pc' = pc
             ELSE run' = [st EXCEPT !.message = r.err] /\ pc' = "failure"
    /\ UNCHANGED <<connections, db, tables>> /\ UNCHANGED NotRun

\* Fault: execute_fault(env, conn_index) on Disconnect; its result is a value.
RunFaultDisconnect ==
    /\ AtInteraction("Fault") /\ Cur(run).fault = "Disconnect"
    /\ \E index \in 0..(Len(connections) - 1) :
          LET o == DisconnectArm(connections, index) IN
          /\ connections' = o.conns
          /\ run' = NextInteraction([run EXCEPT !.trace = Append(@, Step(run, o.result))])
    /\ UNCHANGED <<pc, db, tables>> /\ UNCHANGED NotRun

\* Fault: execute_fault on ReopenDatabase, the database opens and reconnects.
RunFaultReopen ==
    /\ AtInteraction("Fault") /\ Cur(run).fault = "ReopenDatabase"
    /\ db' = db + 1
    /\ connections' = Reconnect(ClearConnections(connections), NumConns(connections), db + 1)
    /\ run' = NextInteraction([run EXCEPT !.trace = Append(@, Step(run, "Ok"))])
    /\ UNCHANGED <<pc, tables>> /\ UNCHANGED NotRun

\* Fault: execute_fault on ReopenDatabase, open_file or connect fails: panic.
RunFaultReopenPanics ==
    /\ AtInteraction("Fault") /\ Cur(run).fault = "ReopenDatabase"
    /\ connections' = ClearConnections(connections)
    /\ pc' = OpenFileErr(NoFault).pc
    /\ UNCHANGED <<run, db, tables>> /\ UNCHANGED NotRun

RunNext ==
    \/ RunFinish
    \/ RunNextItem
    \/ RunQuery
    \/ RunQueryPanics
    \/ RunAssumption
    \/ RunAssertion
    \/ RunFaultDisconnect
    \/ RunFaultReopen
    \/ RunFaultReopenPanics

SpecRun == RunInit /\ [][RunNext]_vars

\* The interpreter keeps stepping until the run has ended.
SpecRunFair == SpecRun /\ WF_vars(RunNext)

(***************************************************************************)
(* Claims about compute_via_diff                                           *)
(***************************************************************************)
RECURSIVE IsSubseq(_, _)
IsSubseq(a, b) ==
    IF a = <<>> THEN TRUE
    ELSE IF b = <<>> THEN FALSE
    ELSE IF Head(a) = Head(b) THEN IsSubseq(Tail(a), Tail(b))
    ELSE IsSubseq(a, Tail(b))

\* res is obtained from orig by dropping items and, inside the kept items,
\* dropping interactions, the order kept at both levels.
RECURSIVE PlanSubseq(_, _)
PlanSubseq(res, orig) ==
    IF res = <<>> THEN TRUE
    ELSE IF orig = <<>> THEN FALSE
    ELSE \/ IsSubseq(Head(res), Head(orig)) /\ PlanSubseq(Tail(res), Tail(orig))
         \/ PlanSubseq(res, Tail(orig))

\* The interactions of item j whose line is still in the text, in order.
KeptOfItem(xs, j) ==
    SelectSeq([n \in 1..Len(xs) |-> <<n, xs[n]>>],
              LAMBDA e : <<j, e[1]>> \in Range(origin))

KeptPlan ==
    LET ex   == Expand(base)
        kept == [j \in 1..Len(ex) |->
                    LET ks == KeptOfItem(ex[j], j) IN [n \in 1..Len(ks) |-> ks[n][2]]]
    IN SelectSeq(kept, LAMBDA xs : xs # <<>>)

\* C1: on the unmodified rendering of a plan, compute_via_diff returns the
\* expanded plan: one entry per item, in order, each the item's interactions().
C1_RoundTrip ==
    (pc = "done" /\ edits = NoEdits) => result = Expand(base)

C1_Witness ==
    /\ pc = "done" /\ edits = NoEdits
    /\ Len(base) = 2 /\ base[1].type = "Property" /\ base[2].type = "Query"
    /\ Len(result) = 2 /\ Len(result[1]) = 3

\* C2: when only interaction lines were deleted, the result is the expanded
\* plan with exactly the deleted interactions removed (items left empty dropped).
C2_DeletedLinesRemoved ==
    (pc = "done" /\ edits.rm = 0 /\ edits.ins = 0) => result = KeptPlan

\* C3: when lines were only deleted (a strict subset of them), the result is
\* a subsequence of the expanded plan, item-wise and interaction-wise.
C3_ShrinkMonotone ==
    (pc = "done" /\ edits.ins = 0 /\ text # <<>>) => PlanSubseq(result, Expand(base))

C3_Witness ==
    /\ pc = "done" /\ edits.ins = 0 /\ edits.del = 2 /\ text # <<>>
    /\ result # <<>> /\ result # Expand(base)
    /\ Len(Flatten(result)) = Len(Flatten(Expand(base))) - 2

\* C4: empty lines and begin/end markers are skipped wherever they occur:
\* inserting or removing them in the rendering leaves the result unchanged.
C4_SkipLinesIgnored ==
    (pc = "done" /\ edits.del = 0) => result = Expand(base)

(***************************************************************************)
(* Claims about Interactions::shadow and plan.stats()                      *)
(***************************************************************************)
\* The early return of a DoubleCreateFailure whose table exists.
EarlyReturn(it, tbls) ==
    /\ it.type = "Property" /\ it.property.name = "DoubleCreateFailure"
    /\ HasTable(tbls, it.property.create.table)

\* C5: Interactions::shadow on a Property applies the shadow of each query of
\* property.interactions() exactly once, in that order: the tables after the
\* call are the fold of Query::shadow over the Query interactions of the
\* expansion (stated where the call does not return early).
C5_ShadowOnce ==
    (pc = "shadowed" /\ shadowItem.type = "Property" /\ ~EarlyReturn(shadowItem, tables0))
        => tables = ShadowAll(QueriesIn(PropInteractions(shadowItem.property)), tables0)

KindCount(xs, kind) ==
    Cardinality({n \in 1..Len(xs) : xs[n].type = "Query" /\ xs[n].query.kind = kind})

StatsSum(st) ==
    st.read_count + st.write_count + st.delete_count + st.update_count
        + st.create_count + st.create_index_count + st.drop_count

\* C9: plan.stats() reports per kind the number of queries of that kind among
\* the Query interactions of the expanded plan (top-level and nested in
\* properties); the seven counts sum to the number of Query interactions.
C9_StatsCountQueries ==
    pc = "counted" =>
        LET xs == Flatten(Expand(statsPlan)) IN
        /\ statsOut.read_count = KindCount(xs, "Select")
        /\ statsOut.write_count = KindCount(xs, "Insert")
        /\ statsOut.delete_count = KindCount(xs, "Delete")
        /\ statsOut.update_count = KindCount(xs, "Update")
        /\ statsOut.create_count = KindCount(xs, "Create")
        /\ statsOut.create_index_count = KindCount(xs, "CreateIndex")
        /\ statsOut.drop_count = KindCount(xs, "Drop")
        /\ StatsSum(statsOut) = Len(QueriesIn(xs))

C9_Witness ==
    /\ pc = "counted" /\ Len(statsPlan) = 2
    /\ statsPlan[1].type = "Property" /\ statsPlan[1].property.name = "DoubleCreateFailure"
    /\ statsPlan[2] = ItemQuery(Q("Create", "t1", 1, 0))
    /\ statsOut.create_count = 3 /\ statsOut.update_count = 1

(***************************************************************************)
(* Claims about the plan generator                                         *)
(***************************************************************************)
Started(g) == g.pc \in {"loop", "done", "panic"}

\* C7: every plan InteractionPlan::arbitrary_from builds has a Create query as
\* its first item, for every rng draw and every max_interactions, and
\* env.tables is not empty once that first item has been generated.
C7_FirstItemCreate ==
    \A r \in Runs :
        Started(gen[r]) =>
            /\ Len(gen[r].plan) >= 1
            /\ gen[r].plan[1].type = "Query" /\ gen[r].plan[1].query.kind = "Create"
            /\ (Len(gen[r].plan) = 1 => gen[r].tables # <<>>)

C7_Witness ==
    /\ gen[1].pc = "done" /\ opts.max_interactions = 0
    /\ Len(gen[1].plan) = 1 /\ Len(gen[1].tables) = 1

C6_EngineErrorReturned ==
    (pc = "returned" /\ engine.failed) => ~ret.ok

\* C10: Disconnect on an index whose slot is live returns Ok and leaves that
\* slot Disconnected; every other slot, the number of slots, the database
\* handle and the shadow tables are unchanged.
C10_DisconnectLive ==
    (pc = "ready" /\ fault.kind = "Disconnect" /\ IsConnected(fault.pre[fault.index + 1]))
        => /\ fault.result = "Ok"
           /\ Len(connections) = Len(fault.pre)
           /\ connections[fault.index + 1] = Disconnected
           /\ \A i \in 1..Len(connections) :
                 i # fault.index + 1 => connections[i] = fault.pre[i]
           /\ db = fault.preDb
           /\ tables = fault.preTables

C10_Witness ==
    /\ pc = "ready" /\ fault.kind = "Disconnect" /\ fault.result = "Ok"
    /\ fault.index = 1 /\ Len(connections) = 2
    /\ fault.pre = <<Live(1), Live(1)>>
    /\ connections = <<Live(1), Disconnected>>
    /\ tables # <<>>

\* C11: Disconnect on an index whose slot is already Disconnected returns the
\* error "connection already disconnected" (no panic) and leaves the whole
\* environment as it was.
C11_DisconnectDead ==
    (fault.kind = "Disconnect" /\ ~IsConnected(fault.pre[fault.index + 1]))
        => /\ pc = "ready"
           /\ fault.result = "connection already disconnected"
           /\ connections = fault.pre
           /\ db = fault.preDb
           /\ tables = fault.preTables

C11_Witness ==
    /\ pc = "ready" /\ fault.kind = "Disconnect" /\ fault.index = 0
    /\ fault.pre = <<Disconnected, Live(1)>>
    /\ connections = <<Disconnected, Live(1)>>
    /\ fault.result = "connection already disconnected"

\* C12: when a ReopenDatabase fault has completed, env.connections has as
\* many slots as before the fault, every slot is a live connection to the
\* newly opened database (slots that were Disconnected too), and env.db is the
\* newly opened handle.
C12_ReopenReconnectsAll ==
    (pc = "ready" /\ fault.kind = "ReopenDatabase")
        => /\ fault.result = "Ok"
           /\ Len(connections) = Len(fault.pre)
           /\ db # fault.preDb
           /\ \A i \in 1..Len(connections) : connections[i] = Live(db)

C12_Witness ==
    /\ pc = "ready" /\ fault.kind = "ReopenDatabase" /\ fault.result = "Ok"
    /\ fault.pre = <<Disconnected, Live(0)>>
    /\ connections = <<Live(1), Live(1)>> /\ db = 1

\* C13: the number of connection slots is fixed for a run: after any sequence
\* of completed Disconnect and ReopenDatabase faults, successful or not,
\* env.connections has the length it had at construction.
C13_SlotCountFixed ==
    pc = "ready" => Len(connections) = fault.n0

C13_Witness ==
    /\ pc = "ready" /\ fault.n0 = 2 /\ db = 2
    /\ fault.kind = "Disconnect" /\ fault.result = "connection already disconnected"
    /\ Len(connections) = 2

\* C14: on ReopenDatabase all handles are torn down before the reopen: when
\* the database file is opened again env.connections is empty, and in no
\* state does a slot hold a connection to a database other than env.db.
C14_TornDownBeforeReopen ==
    /\ pc = "reopen" => connections = <<>>
    /\ \A i \in 1..Len(connections) :
          IsConnected(connections[i]) => connections[i].db = db

C14_Witness ==
    /\ pc = "reconnect" /\ fault.opened = "ok" /\ db = 2
    /\ fault.pre = <<Live(1), Disconnected>> /\ connections = <<>>

\* C15: when reopening the database file fails the run panics; execute_fault
\* with ReopenDatabase never returns an error value.
C15_ReopenFailurePanics ==
    /\ fault.kind = "ReopenDatabase" => fault.result \in {"running", "Ok"}
    /\ fault.opened = "failed" => pc = "panic"

C15_Witness ==
    /\ pc = "panic" /\ fault.kind = "ReopenDatabase" /\ fault.opened = "failed"
    /\ fault.result = "running" /\ Len(fault.pre) = 2 /\ db = 1

\* C16: when the engine accepts the query and its row stream ends with Done,
\* execute_query returns Ok(rows), rows being exactly the rows the stream
\* reported through Row steps, in that order, whatever IO, Busy or Interrupt
\* results came between them.
C16_RowsCollected ==
    (pc = "returned" /\ ~engine.failed)
        => ret.ok /\ ret.rows = engine.rows

C16_Witness ==
    /\ pc = "returned" /\ ~engine.failed /\ ret.ok
    /\ engine.io = 1 /\ engine.steps = 4
    /\ ret.rows = << <<1>>, <<2>> >>

(***************************************************************************)
(* Claims about assertions, assumptions and the interpreter                *)
(***************************************************************************)
LastStep(st) == st.trace[Len(st.trace)]

\* C17: execute_assertion returns Ok exactly when the predicate evaluates to
\* Ok(true); on Ok(false) it returns an error that is the assertion's message,
\* on Err the message followed by the inner error; the stack and the
\* environment are as before the call.
C17_AssertionResult ==
    [][(AtInteraction("Assertion") /\ run'.trace # run.trace) =>
          LET msg == Cur(run).message
              o   == LastStep(run').outcome
          IN /\ o.ret.ok <=> o.pred = "true"
             /\ o.pred = "false" => o.ret.err = <<msg>>
             /\ o.pred = "inner error" => o.ret.err = <<msg, ". Inner error: ", "inner error">>
             /\ run'.stack = run.stack
             /\ connections' = connections /\ db' = db /\ tables' = tables]_vars

C17_Witness ==
    /\ pc = "failure" /\ run.trace # <<>>
    /\ LastStep(run).type = "Assertion" /\ LastStep(run).outcome.pred = "inner error"
    /\ run.message = <<"one table", ". Inner error: ", "inner error">>
    /\ Len(run.stack) = 2

\* The executed assumptions whose predicate evaluated to Ok(false).
ViolatedAssumptions(st) ==
    {n \in 1..Len(st.trace) :
        st.trace[n].type = "Assumption" /\ st.trace[n].outcome.pred = "false"}

FailedAssertions(st) ==
    {n \in 1..Len(st.trace) :
        st.trace[n].type = "Assertion" /\ st.trace[n].outcome.pred # "true"}

\* C18: when an assumption of the current item evaluates to Ok(false), none of
\* the remaining interactions of the item is executed, interaction_pointer
\* moves to the next item with the stack cleared and secondary_pointer reset,
\* and the run is not failed: only a failed assertion fails a run.
C18_AssumptionSkipsItem ==
    /\ [](/\ \A n \in ViolatedAssumptions(run) : \A m \in 1..Len(run.trace) :
                run.trace[m].item = run.trace[n].item => run.trace[m].at <= run.trace[n].at
          /\ pc = "failure" => FailedAssertions(run) # {})
    /\ [][(run'.trace # run.trace /\ Len(run'.trace) \in ViolatedAssumptions(run')) =>
             /\ run'.interaction_pointer = run.interaction_pointer + 1
             /\ run'.secondary_pointer = 0
             /\ run'.stack = <<>>
             /\ pc' = "run"]_vars

C18_Witness ==
    /\ pc = "success" /\ Len(run.plan) = 2
    /\ run.plan[1].type = "Property" /\ run.plan[2] = ItemQuery(SelectT)
    /\ ViolatedAssumptions(run) = {3}
    /\ Len(run.trace) = 4 /\ run.trace[4].item = 1
    /\ FailedAssertions(run) = {}

\* The Query interactions among the first n interactions of a list.
QueriesBefore(xs, n) == Cardinality({m \in 1..n : xs[m].type = "Query"})

\* C19: interaction_pointer <= plan.len() and secondary_pointer <= the number
\* of interactions of the current item; while an item runs the stack holds
\* one result per Query interaction of the item executed so far; whenever
\* interaction_pointer advances the stack is empty and secondary_pointer is 0.
C19_CursorAndStack ==
    /\ [](/\ run.interaction_pointer <= Len(run.plan)
          /\ IF run.interaction_pointer < Len(run.plan)
             THEN /\ run.secondary_pointer <= Len(CurInteractions(run))
                  /\ Len(run.stack) = QueriesBefore(CurInteractions(run), run.secondary_pointer)
             ELSE run.secondary_pointer = 0 /\ run.stack = <<>>)
    /\ [][run'.interaction_pointer # run.interaction_pointer =>
             /\ run'.interaction_pointer = run.interaction_pointer + 1
             /\ run'.stack = <<>>
             /\ run'.secondary_pointer = 0]_vars

C19_Witness ==
    /\ pc = "run" /\ run.interaction_pointer = 1 /\ run.secondary_pointer = 1
    /\ run.plan[1].type = "Property" /\ run.plan[2].type = "Property"
    /\ Len(run.trace) = 5 /\ Len(run.stack) = 1
    /\ run.trace[1].type = "Query" /\ run.trace[2].type = "Query"

\* How a run that has ended relates to what it executed: failure is at the
\* first executed assertion that does not hold and reports its message;
\* success is at interaction_pointer = plan.len() with no failed assertion.
RunOutcome ==
    /\ pc = "failure" =>
          /\ run.trace # <<>>
          /\ FailedAssertions(run) = {Len(run.trace)}
          /\ run.message # <<>>
          /\ run.message[1] = Cur(run).message
          /\ Cur(run).type = "Assertion"
          /\ LastStep(run).item = run.interaction_pointer
          /\ LastStep(run).at = run.secondary_pointer
    /\ pc = "success" =>
          /\ run.interaction_pointer = Len(run.plan)
          /\ FailedAssertions(run) = {}
          /\ run.message = <<>>

IsTopLevelDrop(it) == it.type = "Query" /\ it.query.kind = "Drop"

C21_NoTopLevelDrop ==
    \A r \in Runs : \A n \in 1..Len(gen[r].plan) : ~IsTopLevelDrop(gen[r].plan[n])

\* A returned plan whose last item came from the producer after Drop in the
\* vector, so the draw went past the Drop entry.
C21_Witness ==
    /\ gen[1].pc = "done"
    /\ Len(gen[1].plan) = MaxPlan
    /\ gen[1].plan[MaxPlan].type = "Fault"
    /\ stream[MaxPlan].pick = Total(Weights(Remaining(Stats(SubSeq(gen[1].plan, 1, MaxPlan - 1))))) - 1

\* C22: when the text runs out inside item j at position k, the result is the
\* items before j as pruned so far followed by the first k interactions of
\* item j, and nothing after; when it runs out between two items, the result
\* is the items before j and nothing after.
C22_TextExhausted ==
    pc = "done" =>
        LET c == TextCut IN
        /\ c.at = "inner" =>
               result = SubSeq(c.plan, 1, c.j) \o <<SubSeq(c.plan[c.j + 1], 1, c.k)>>
        /\ c.at = "boundary" => result = SubSeq(c.plan, 1, c.j)

\* The text ends after two of the three lines of the second item.
C22_Witness ==
    /\ pc = "done" /\ TextCut.at = "inner"
    /\ TextCut.j = 1 /\ TextCut.k = 2 /\ Len(TextCut.plan[2]) = 3
    /\ Len(result) = 2 /\ Len(result[2]) = 2

\* C23: compute_via_diff ends after a bounded number of loop iterations for
\* every text and baseline, uses no index or split_off position outside its
\* vector, and returns no item without interactions.
C23_TerminatesInBounds ==
    pc = "done" =>
        /\ LET c == TextCut IN c.at # "oob" /\ c.n <= WalkBound
        /\ \A n \in 1..Len(result) : result[n] # <<>>

\* An item lost all its interactions and was removed, and the walk went on to
\* settle the next one.
C23_Witness ==
    /\ pc = "done" /\ TextCut.at = "none"
    /\ Len(TextCut.plan) < Len(base)
    /\ result # <<>> /\ TextCut.n >= 4

\* C24: InteractionPlan::arbitrary_from returns: no call ends in a panic, and
\* the plan it returns has exactly max_interactions items, or the one Create
\* when max_interactions is 0; a property is one item.
ReturnedLen == IF opts.max_interactions >= 1 THEN opts.max_interactions ELSE 1

C24_ReturnsMaxItems ==
    \A r \in Runs :
        /\ gen[r].pc # "panic"
        /\ gen[r].pc = "done" => Len(gen[r].plan) = ReturnedLen

\* C25: for every vector of remaining budgets the Fault weight is at least 1
\* and the total weight positive, so a producer can be selected at every
\* generation step; once every budget is 0 only Fault has a weight, and every
\* item generated from then on is a Fault.
BudgetVectors ==
    [read : 0..2, write : 0..2, create : 0..2, create_index : 0..1, delete : 0..1,
     update : 0..1]

AllSpent(rem) ==
    /\ rem.read = 0 /\ rem.write = 0 /\ rem.create = 0
    /\ rem.create_index = 0 /\ rem.delete = 0 /\ rem.update = 0

FaultSelectable(rem) ==
    LET w == Weights(rem) IN
    /\ w[Len(w)][2] = "Fault" /\ w[Len(w)][1] >= 1
    /\ Total(w) > 0
    /\ AllSpent(rem) => \A n \in 1..(Len(w) - 1) : w[n][1] = 0

C25_FaultSelectable ==
    /\ [](gen[1].pc = "start" => \A rem \in BudgetVectors : FaultSelectable(rem))
    /\ [](\A r \in Runs :
            gen[r].pc = "loop" => FaultSelectable(Remaining(Stats(gen[r].plan))))
    /\ [][\A r \in Runs :
            (/\ gen[r].pc = "loop"
             /\ AllSpent(Remaining(Stats(gen[r].plan)))
             /\ Len(gen'[r].plan) > Len(gen[r].plan))
            => gen'[r].plan[Len(gen'[r].plan)].type = "Fault"]_vars

\* Every budget was spent after two items and the third item is a Fault.
C25_Witness ==
    /\ Len(gen[1].plan) = 3
    /\ AllSpent(Remaining(Stats(SubSeq(gen[1].plan, 1, 2))))
    /\ gen[1].plan[3].type = "Fault"

\* C26: with opts.disable_reopen_database set every Fault item of a generated
\* plan is a Disconnect; with it clear the draw decides between Disconnect and
\* ReopenDatabase, so both occur.
FaultDrawn(o, a) ==
    IF o.disable_reopen_database THEN "Disconnect"
    ELSE IF a % 2 = 0 THEN "Disconnect" ELSE "ReopenDatabase"

C26_ReopenDisabled ==
    /\ \A r \in Runs : \A n \in 1..Len(gen[r].plan) :
          (opts.disable_reopen_database /\ gen[r].plan[n].type = "Fault")
              => gen[r].plan[n].fault = "Disconnect"
    /\ \A n \in 1..Len(gen[1].plan) :
          gen[1].plan[n].type = "Fault"
              => gen[1].plan[n].fault = FaultDrawn(opts, stream[n].arg)

\* A returned plan with two faults, generated with the option set.
C26_Witness ==
    /\ opts.disable_reopen_database /\ gen[1].pc = "done"
    /\ Len(gen[1].plan) = 3
    /\ gen[1].plan[2] = ItemFault("Disconnect") /\ gen[1].plan[3] = ItemFault("Disconnect")

\* C27: fault.hist[i] is the last fault that changed slot i: a Disconnect that
\* returned Ok, or a completed ReopenDatabase. A Disconnect on a slot whose
\* last such fault is a successful Disconnect returns the error; a Disconnect
\* on a slot whose last such fault is a ReopenDatabase returns Ok; and a
\* Disconnected slot stays Disconnected in every step that is not part of a
\* ReopenDatabase.
DisconnectCall ==
    /\ pc = "ready" /\ pc' = "ready" /\ fault'.kind = "Disconnect" /\ fault' # fault

C27_DisconnectHistory ==
    /\ [][DisconnectCall =>
            /\ fault.hist[fault'.index + 1] = "disconnected"
                  => fault'.result = "connection already disconnected"
            /\ fault.hist[fault'.index + 1] = "reopened" => fault'.result = "Ok"]_vars
    /\ [][\A i \in 1..Len(connections) :
            ~IsConnected(connections[i])
               => \/ i <= Len(connections') /\ ~IsConnected(connections'[i])
                  \/ fault'.kind = "ReopenDatabase"]_vars

\* After a completed ReopenDatabase slot 0 was disconnected with Ok, and a
\* further Disconnect on it has returned the error.
C27_Witness ==
    /\ pc = "ready" /\ db = 1 /\ fault.kind = "Disconnect" /\ fault.index = 0
    /\ fault.hist[1] = "disconnected"
    /\ fault.pre[1] = Disconnected
    /\ fault.result = "connection already disconnected"

\* C28: once the first Create is pushed, env.tables is not empty whenever the
\* loop is about to call Interactions::arbitrary_from.
AboutToGenerate(g) == g.pc = "loop" /\ Len(g.plan) < opts.max_interactions

C28_CatalogNeverEmpty ==
    \A r \in Runs : AboutToGenerate(gen[r]) => gen[r].tables # <<>>

\* C29: Interactions::shadow on a DoubleCreateFailure whose table is already
\* in env.tables leaves the tables as they were: neither the create nor any
\* filler query of the property is applied.
C29_ExistingTableUntouched ==
    (pc = "shadowed" /\ EarlyReturn(shadowItem, tables0)) => tables = tables0

\* The property names an existing table and carries a filler query whose own
\* shadow would change the tables.
C29_Witness ==
    /\ pc = "shadowed" /\ EarlyReturn(shadowItem, tables0)
    /\ shadowItem.property.queries # <<>>
    /\ ShadowAll(shadowItem.property.queries, tables0) # tables0
    /\ tables = tables0

\* C30: engine.trace is the sequence of results rows.step() has reported and
\* engine.io the number of io.run_once() calls. There is one call per IO
\* result; the loop is still stepping after any run of Row, IO, Busy and
\* Interrupt results, and has returned only after Done or a step error; under
\* the fairness of SpecQueryFair every accepted query ends.
CountOf(kind, tr) == Cardinality({n \in 1..Len(tr) : tr[n] = kind})

KeepsStepping(tr) == \A n \in 1..Len(tr) : tr[n] \in {"Row", "IO", "Busy", "Interrupt"}

C30_PumpsUntilDone ==
    /\ [](engine.io = CountOf("IO", engine.trace))
    /\ []((pc = "stepping" \/ engine.trace # <<>>) =>
            /\ KeepsStepping(engine.trace) => pc \in {"stepping", "panic"}
            /\ pc = "returned" => engine.trace[Len(engine.trace)] \in {"Done", "Err"})
    /\ (pc = "stepping") ~> (pc \in {"returned", "panic"})

\* The stream reported IO, Busy and Interrupt before Done, and the query
\* returned after one io.run_once().
C30_Witness ==
    /\ pc = "returned" /\ ret.ok
    /\ engine.trace = <<"IO", "Busy", "Interrupt", "Done">>
    /\ engine.io = 1

====
